---- MODULE Spec2Model ----
(***************************************************************************)
(* Model of the archive and artifact-transfer layer of ci_utils:           *)
(*   archive.rs            Format::from_filename, extract_item, create     *)
(*   programs/tar.rs       Compression, Switch, Command, Tar::pack_cmd     *)
(*   actions/artifacts.rs  discovery, upload, download                     *)
(*                                                                         *)
(* A file name is the sequence of its dot-separated parts:                 *)
(* "gui_wasm.tar.gz" is <<"x", "tar", "gz">>, ".zip" is <<"", "zip">>.     *)
(* A path is a record [dir, name].                                         *)
(***************************************************************************)
EXTENDS Integers, Sequences, FiniteSets, TLC

VARIABLES
    call,        \* archive layer: the last call made, with its arguments
    ret,         \* archive layer: what that call did and returned
    walk,        \* discovery: state of the directory walk of discover_and_feed
    chan,        \* discovery: the flume channel between walker and stream
    consumer,    \* discovery: the consumer of the stream
    eager,       \* discovery: the last result of single_dir_provider
    up,          \* transfer: state of one call of upload
    dl           \* transfer: state of one call of download_single_file_artifact

archiveVars == <<call, ret>>
discoveryVars == <<walk, chan, consumer, eager>>
transferVars == <<up, dl>>
vars == <<call, ret, walk, chan, consumer, eager, up, dl>>

(***************************************************************************)
(* Bounds.                                                                 *)
(***************************************************************************)
MaxParts == 3     \* dot-separated parts of a file name
MaxPaths == 2     \* input paths handed to Tar::pack_cmd
MaxItems == 3     \* items of an upload sequence or of an artifact manifest
MaxEntries == 3   \* entries below the root of a walked directory tree

(***************************************************************************)
(* File names and paths.                                                   *)
(***************************************************************************)
\* A part that is not valid UTF-8 (OsStr::to_str gives None on it).
NonUtf8 == "<non-utf8>"

NameParts == {"", "x", "zip", "7z", "tgz", "txz", "bz2", "gz", "lzma", "xz",
              "tar", "bmp", NonUtf8}

SeqsUpTo(S, n) == UNION {[1..k -> S] : k \in 1..n}

FileNames == SeqsUpTo(NameParts, MaxParts)

Dirs == {"", "/tmp/.tmpnejBKd"}

Paths == [dir : Dirs, name : FileNames]

None == [some |-> FALSE]
Some(v) == [some |-> TRUE, val |-> v]

\* Path::file_name of the last component: None for "..".  An empty or "."
\* last component is dropped by Path::components, and the file name is then
\* that of the directory ("" has none, ".tmpnejBKd" has no extension), so
\* that for Path::extension it is as if there were no file name.
file_name(name) ==
    IF name \in {<<"">>, <<"", "">>, <<"", "", "">>} THEN None ELSE Some(name)

\* Path::extension: the part after the last dot of the file name; None when
\* there is no file name, no dot, or the only dot is the leading one.
extension(name) ==
    IF ~file_name(name).some \/ Len(name) = 1 THEN None
    ELSE IF SubSeq(name, 1, Len(name) - 1) = <<"">> THEN None
    ELSE Some(name[Len(name)])

\* Path::file_stem: the file name without its extension.
file_stem(name) ==
    IF ~file_name(name).some THEN None
    ELSE IF extension(name).some THEN Some(SubSeq(name, 1, Len(name) - 1))
    ELSE Some(name)

(***************************************************************************)
(* Results.                                                                *)
(***************************************************************************)
Ok(v) == [kind |-> "Ok", val |-> v]
Err(e) == [kind |-> "Err", err |-> e]
Panic(why) == [kind |-> "Panic", why |-> why]

(***************************************************************************)
(* programs/tar.rs: Compression.                                           *)
(***************************************************************************)
Compression == {"Bzip2", "Gzip", "Lzma", "Xz"}

deduce_from_extension_lzma_as_xz(ext) ==
    IF ext = NonUtf8 THEN Panic("unwrap")
    ELSE IF ext = "bz2" THEN Ok("Bzip2")
    ELSE IF ext = "gz" THEN Ok("Gzip")
    ELSE IF ext = "lzma" THEN Ok("Xz")
    ELSE IF ext = "xz" THEN Ok("Xz")
    ELSE Err("NotACompression")

deduce_from_extension(ext) ==
    IF ext = NonUtf8 THEN Panic("unwrap")
    ELSE IF ext = "bz2" THEN Ok("Bzip2")
    ELSE IF ext = "gz" THEN Ok("Gzip")
    ELSE IF ext = "lzma" THEN Ok("Lzma")
    ELSE IF ext = "xz" THEN Ok("Xz")
    ELSE Err("NotACompression")

\* impl AsRef<str> for Compression
CompressionFlag(c) ==
    CASE c = "Bzip2" -> "-j"
      [] c = "Gzip" -> "-z"
      [] c = "Lzma" -> "--lzma"
      [] c = "Xz" -> "-J"

(***************************************************************************)
(* archive.rs: Format.                                                     *)
(***************************************************************************)
Zip == [tag |-> "Zip"]
SevenZip == [tag |-> "SevenZip"]
Tar(c) == [tag |-> "Tar", compression |-> c]

Format == {Zip, SevenZip} \cup {Tar(Some(c)) : c \in Compression} \cup {Tar(None)}

\* The three errors of from_filename, by the message each carries.
NoExtension == "The path had no extension."
MissingTar == "looks like a tar compression, but there is no .tar. component"
Unrecognized == "Unrecognized archive extension"

from_filename(path) ==
    LET ext == extension(path.name) IN
    IF ~ext.some THEN Err(NoExtension)
    ELSE IF ext.val = NonUtf8 THEN Panic("unwrap")
    ELSE IF ext.val = "zip" THEN Ok(Zip)
    ELSE IF ext.val = "7z" THEN Ok(SevenZip)
    ELSE IF ext.val = "tgz" THEN Ok(Tar(Some("Gzip")))
    ELSE IF ext.val = "txz" THEN Ok(Tar(Some("Xz")))
    ELSE LET compression == deduce_from_extension(ext.val)
             stem == file_stem(path.name)
             secondary_extension ==
                 IF stem.some THEN extension(stem.val) ELSE None
         IN  IF compression.kind = "Ok"
             THEN IF secondary_extension = Some("tar")
                  THEN Ok(Tar(Some(compression.val)))
                  ELSE Err(MissingTar)
             ELSE Err(Unrecognized)

(***************************************************************************)
(* archive.rs: extract_item.  openOk: whether zip::open / tar::open_tar_gz *)
(* succeeds; taskOk: whether the spawned extract_subtree task succeeds.    *)
(* The result is the value returned together with the blocking tasks the   *)
(* call has spawned.                                                       *)
(***************************************************************************)
Outcome(result, spawned, ran) ==
    [result |-> result, spawned |-> spawned, ran |-> ran]

extract_item_any_tar(archive_path, openOk, taskOk) ==
    LET format == from_filename(archive_path) IN
    IF format.kind # "Ok" THEN Outcome(format, <<>>, <<>>)
    ELSE IF format.val = Zip
    THEN IF ~openOk THEN Outcome(Err("zip::open"), <<>>, <<>>)
         ELSE Outcome(IF taskOk THEN Ok("unit") ELSE Err("extract_subtree"),
                      <<"zip::extract_subtree">>, <<>>)
    ELSE IF format.val.tag = "Tar"
    THEN IF ~openOk THEN Outcome(Err("tar::open_tar_gz"), <<>>, <<>>)
         ELSE Outcome(IF taskOk THEN Ok("unit") ELSE Err("extract_subtree"),
                      <<"tar::extract_subtree">>, <<>>)
    ELSE Outcome(Panic("todo"), <<>>, <<>>)

extract_item(archive_path, openOk, taskOk) ==
    LET format == from_filename(archive_path) IN
    IF format.kind # "Ok" THEN Outcome(format, <<>>, <<>>)
    ELSE IF format.val = Zip
    THEN IF ~openOk THEN Outcome(Err("zip::open"), <<>>, <<>>)
         ELSE Outcome(IF taskOk THEN Ok("unit") ELSE Err("extract_subtree"),
                      <<"zip::extract_subtree">>, <<>>)
    ELSE IF format.val = Tar(Some("Gzip"))
    THEN IF ~openOk THEN Outcome(Err("tar::open_tar_gz"), <<>>, <<>>)
         ELSE Outcome(IF taskOk THEN Ok("unit") ELSE Err("extract_subtree"),
                      <<"tar::extract_subtree">>, <<>>)
    ELSE Outcome(Panic("todo"), <<>>, <<>>)

(***************************************************************************)
(* The file system Tar::pack_cmd canonicalizes its input path in.  A path  *)
(* of the file system is the sequence of its components from the root; an  *)
(* input path is [abs, comps].                                             *)
(***************************************************************************)
Cwd == <<"work">>
FsDirs == {<<>>, <<"work">>, <<"work", "sub">>, <<"data">>}
FsFiles == {<<"work", "target.bmp">>, <<"data", "real.bmp">>}
FsLinkFrom == <<"work", "link">>
FsLinkTo == <<"data", "real.bmp">>

Rel(comps) == [abs |-> FALSE, comps |-> comps]
Abs(comps) == [abs |-> TRUE, comps |-> comps]

InputPaths ==
    { Rel(<<"target.bmp">>), Abs(<<"work", "target.bmp">>), Rel(<<"link">>),
      Rel(<<"sub", ".">>), Rel(<<"missing">>), Abs(<<>>), Rel(<<"..">>),
      Rel(<<"sub", "..">>), Rel(<<".">>) }

Front(s) == SubSeq(s, 1, Len(s) - 1)

\* std::fs::canonicalize: the absolute path with "." and ".." and symbolic
\* links resolved, an error when a component does not exist.
RECURSIVE Resolve(_, _)
Resolve(cur, comps) ==
    IF comps = <<>> THEN Ok(cur)
    ELSE LET c == Head(comps)
             next == IF c = "." THEN cur
                     ELSE IF c = ".." THEN (IF cur = <<>> THEN cur ELSE Front(cur))
                     ELSE IF Append(cur, c) = FsLinkFrom THEN FsLinkTo
                     ELSE Append(cur, c)
         IN  IF cur \notin FsDirs THEN Err("ENOTDIR")
             ELSE IF next \notin FsDirs \cup FsFiles THEN Err("ENOENT")
             ELSE Resolve(next, Tail(comps))

canonicalize(p) == Resolve(IF p.abs THEN <<>> ELSE Cwd, p.comps)

\* Path::parent of an absolute canonical path: None for the root.
parent(canon) == IF canon = <<>> THEN None ELSE Some(Front(canon))

\* Path::file_name of an input path: its last component unless that is
\* "..", "." or the root (a "." that is not the first component is dropped
\* by Path::components).
RECURSIVE DropCurDir(_)
DropCurDir(comps) ==
    IF comps = <<>> THEN <<>>
    ELSE IF Head(comps) = "." THEN DropCurDir(Tail(comps))
    ELSE <<Head(comps)>> \o DropCurDir(Tail(comps))

path_file_name(p) ==
    LET cs == IF p.comps = <<>> THEN <<>>
              ELSE IF ~p.abs /\ Head(p.comps) = "."
                   THEN <<".">> \o DropCurDir(Tail(p.comps))
                   ELSE DropCurDir(p.comps)
    IN  IF cs = <<>> THEN None
        ELSE IF cs[Len(cs)] \in {".", ".."} THEN None
        ELSE Some(cs[Len(cs)])

\* The text of an absolute path and of an archive path.
RECURSIVE AbsStr(_)
AbsStr(canon) ==
    IF canon = <<>> THEN "/"
    ELSE IF Len(canon) = 1 THEN "/" \o canon[1]
    ELSE AbsStr(Front(canon)) \o "/" \o canon[Len(canon)]

RECURSIVE NameStr(_)
NameStr(name) ==
    IF Len(name) = 1 THEN name[1]
    ELSE NameStr(Front(name)) \o "." \o name[Len(name)]

ArchiveStr(path) ==
    IF path.dir = "" THEN NameStr(path.name) ELSE path.dir \o "/" \o NameStr(path.name)

(***************************************************************************)
(* programs/tar.rs: Command, Switch, Tar::pack_cmd, Tar::pack.             *)
(***************************************************************************)
\* impl AsRef<str> for Command
CommandFlag(c) ==
    CASE c = "Append" -> "-r"
      [] c = "Create" -> "-c"
      [] c = "Extract" -> "-x"
      [] c = "List" -> "-t"

\* impl IntoIterator for &Switch
SwitchArgs(switch) ==
    CASE switch.tag = "TargetFile" -> <<"-f", switch.val>>
      [] switch.tag = "Verbose" -> <<"--verbose">>
      [] switch.tag = "UseFormat" -> <<CompressionFlag(switch.val)>>
      [] switch.tag = "WorkingDir" -> <<"--directory", switch.val>>

Switch(tag, val) == [tag |-> tag, val |-> val]

\* The arguments pack_cmd has put on the command before it looks at the paths.
PackPrefix(output_archive) ==
    LET format == from_filename(output_archive) IN
    <<CommandFlag("Create")>>
    \o (IF format.kind = "Ok" /\ format.val \in {Tar(Some(c)) : c \in Compression}
        THEN SwitchArgs(Switch("UseFormat", format.val.compression.val))
        ELSE <<>>)
    \o SwitchArgs(Switch("TargetFile", ArchiveStr(output_archive)))

pack_cmd_first_of_many(tarFound, output_archive, paths_to_pack) ==
    IF ~tarFound THEN Err("tar not found")
    ELSE IF from_filename(output_archive).kind = "Panic" THEN Panic("unwrap")
    ELSE IF Len(paths_to_pack) >= 1
    THEN LET item == paths_to_pack[1]
             canon == canonicalize(item)
         IN  IF canon.kind = "Err" THEN canon
             ELSE IF ~parent(canon.val).some THEN Ok(PackPrefix(output_archive))
             ELSE IF ~path_file_name(item).some THEN Panic("unwrap")
             ELSE Ok(PackPrefix(output_archive)
                     \o SwitchArgs(Switch("WorkingDir", AbsStr(parent(canon.val).val)))
                     \o <<path_file_name(item).val>>)
    ELSE Panic("todo")

pack_cmd(tarFound, output_archive, paths_to_pack) ==
    IF ~tarFound THEN Err("tar not found")
    ELSE IF from_filename(output_archive).kind = "Panic" THEN Panic("unwrap")
    ELSE IF Len(paths_to_pack) = 1
    THEN LET item == paths_to_pack[1]
             canon == canonicalize(item)
         IN  IF canon.kind = "Err" THEN canon
             ELSE IF ~parent(canon.val).some THEN Ok(PackPrefix(output_archive))
             ELSE IF ~path_file_name(item).some THEN Panic("unwrap")
             ELSE Ok(PackPrefix(output_archive)
                     \o SwitchArgs(Switch("WorkingDir", AbsStr(parent(canon.val).val)))
                     \o <<path_file_name(item).val>>)
    ELSE Panic("todo")

\* Tar::pack: pack_cmd(..)?.run_ok().await; runOk: the exit status of tar.
pack(tarFound, output_archive, paths_to_pack, runOk) ==
    LET cmd == pack_cmd(tarFound, output_archive, paths_to_pack) IN
    IF cmd.kind # "Ok" THEN Outcome(cmd, <<>>, <<>>)
    ELSE Outcome(IF runOk THEN Ok("unit") ELSE Err("tar failed"), <<>>, <<cmd.val>>)

(***************************************************************************)
(* archive.rs: create.  The result is an Outcome with the backends the     *)
(* call has invoked; ran holds the tar commands run.                       *)
(***************************************************************************)
Created(outcome, backends) ==
    [result |-> outcome.result, spawned |-> outcome.spawned, ran |-> outcome.ran,
     backends |-> backends]

\* SevenZip::pack: the 7z packer runs and succeeds or fails.
seven_zip_pack(output_archive, paths_to_pack, runOk) ==
    Outcome(IF runOk THEN Ok("unit") ELSE Err("7z failed"), <<>>, <<>>)

create(tarFound, output_archive, paths_to_pack, runOk) ==
    LET format == from_filename(output_archive) IN
    IF format.kind # "Ok" THEN Created(Outcome(format, <<>>, <<>>), <<>>)
    ELSE IF format.val \in {Zip, SevenZip}
    THEN Created(seven_zip_pack(output_archive, paths_to_pack, runOk),
                 <<"SevenZip.pack">>)
    ELSE Created(pack(tarFound, output_archive, paths_to_pack, runOk),
                 <<"Tar.pack">>)

(***************************************************************************)
(* The archive layer as a state machine: each action is one call.          *)
(***************************************************************************)
PackArchives ==
    { [dir |-> "", name |-> n] :
        n \in { <<"output", "tar", "gz">>, <<"output", "tar", "bz2">>,
                <<"output", "tar", "lzma">>, <<"output", "tar", "xz">>,
                <<"output", "tgz">>, <<"output", "txz">>, <<"output", "tar">>,
                <<"output", "zip">>, <<"output", "7z">>, <<"output", "gz">>,
                <<"output">>, <<"output", NonUtf8>> } }

PathLists == {<<>>} \cup SeqsUpTo(InputPaths, MaxPaths)

\* A call of the archive layer with its arguments and with what its
\* collaborators will answer: tarFound (the tar executable is found), openOk
\* (the archive opens), taskOk (the extraction task succeeds), runOk (tar
\* exits with success).
Calls(ops, paths, lists, tarFound, openOk, taskOk, runOk) ==
    [op : ops, path : paths, paths : lists, tarFound : tarFound,
     openOk : openOk, taskOk : taskOk, runOk : runOk]

ArchiveCalls ==
    Calls({"from_filename"}, Paths, {<<>>}, {TRUE}, {TRUE}, {TRUE}, {TRUE})
    \cup Calls({"extract_item"}, Paths, {<<>>}, {TRUE}, BOOLEAN, BOOLEAN, {TRUE})
    \cup Calls({"pack_cmd"}, PackArchives, PathLists, BOOLEAN, {TRUE}, {TRUE}, {TRUE})
    \cup Calls({"pack"}, PackArchives, PathLists, BOOLEAN, {TRUE}, {TRUE}, BOOLEAN)
    \cup Calls({"create"}, PackArchives, PathLists, BOOLEAN, {TRUE}, {TRUE}, BOOLEAN)

NoCall == [op |-> "none", path |-> [dir |-> "", name |-> <<"x">>], paths |-> <<>>,
           tarFound |-> TRUE, openOk |-> TRUE, taskOk |-> TRUE, runOk |-> TRUE]

NotCalled == [kind |-> "NotCalled"]
Running == [kind |-> "Running"]

Pending == Outcome(NotCalled, <<>>, <<>>)

FromFilenameCall ==
    /\ call.op = "from_filename"
    /\ ret = Pending
    /\ ret' = Outcome(from_filename(call.path), <<>>, <<>>)
    /\ UNCHANGED <<call, discoveryVars, transferVars>>

ExtractItemCall ==
    /\ call.op = "extract_item"
    /\ ret = Pending
    /\ ret' = extract_item(call.path, call.openOk, call.taskOk)
    /\ UNCHANGED <<call, discoveryVars, transferVars>>

PackCmdCall ==
    /\ call.op = "pack_cmd"
    /\ ret = Pending
    /\ ret' = Outcome(pack_cmd(call.tarFound, call.path, call.paths), <<>>, <<>>)
    /\ UNCHANGED <<call, discoveryVars, transferVars>>

PackCall ==
    /\ call.op = "pack"
    /\ ret = Pending
    /\ ret' = pack(call.tarFound, call.path, call.paths, call.runOk)
    /\ UNCHANGED <<call, discoveryVars, transferVars>>

CreateCall ==
    /\ call.op = "create"
    /\ ret = Pending
    /\ ret' = create(call.tarFound, call.path, call.paths, call.runOk)
    /\ UNCHANGED <<call, discoveryVars, transferVars>>

(***************************************************************************)
(* actions/artifacts.rs: discovery.                                        *)
(*                                                                         *)
(* A directory tree is the sequence of the entries walkdir yields for it,  *)
(* the root directory first: each entry is "file", "dir", "symlink" or     *)
(* "err" (a walk error: permission denied, broken link).  An entry lies in *)
(* the nearest directory before it; entry i is named i, the root 0, and a  *)
(* path is the sequence of names from the root.                            *)
(***************************************************************************)
EntryKinds == {"file", "dir", "symlink", "err"}

Trees == {<<"dir">> \o t : t \in {<<>>} \cup SeqsUpTo(EntryKinds, MaxEntries)}

RootPath == <<0>>

RECURSIVE EntryPath(_, _)
EntryPath(tree, i) ==
    IF i = 1 THEN RootPath
    ELSE LET j == CHOOSE k \in 1..(i - 1) :
                      /\ tree[k] = "dir"
                      /\ \A m \in (k + 1)..(i - 1) : tree[m] # "dir"
         IN  EntryPath(tree, j) \o <<i - 1>>

FileToUpload(local_path, remote_path) ==
    [local_path |-> local_path, remote_path |-> remote_path]

\* FileToUpload::new_under_root: remote_path is local_path relative to the root.
new_under_root(root_path, local_path) ==
    IF Len(local_path) >= Len(root_path)
       /\ SubSeq(local_path, 1, Len(root_path)) = root_path
    THEN Ok(FileToUpload(local_path,
                         SubSeq(local_path, Len(root_path) + 1, Len(local_path))))
    ELSE Err("strip_prefix")

\* FileToUpload::new: remote_path is the file name of local_path.
new_file_to_upload(local_path) ==
    Ok(FileToUpload(local_path, <<local_path[Len(local_path)]>>))

WalkError == "walkdir::Error"
SendError == "Stopping discovery in progress, because all listeners were dropped."

\* The closure of discover_and_feed on entry i of the tree: the channel's
\* queue after it, and Ok to go on or the error that ends try_for_each.
Fed(queue, result) == [queue |-> queue, result |-> result]

feed_entry_ignoring_send_error(tree, i, queue, receiverAlive) ==
    IF tree[i] = "err" THEN Fed(queue, Err(WalkError))
    ELSE IF tree[i] = "file"
    THEN LET file == new_under_root(RootPath, EntryPath(tree, i)) IN
         IF file.kind # "Ok" THEN Fed(queue, file)
         ELSE Fed(Append(queue, file.val), Ok("unit"))
    ELSE Fed(queue, Ok("unit"))

feed_entry_without_file_filter(tree, i, queue, receiverAlive) ==
    IF tree[i] = "err" THEN Fed(queue, Err(WalkError))
    ELSE LET file == new_under_root(RootPath, EntryPath(tree, i)) IN
         IF file.kind # "Ok" THEN Fed(queue, file)
         ELSE IF receiverAlive THEN Fed(Append(queue, file.val), Ok("unit"))
         ELSE Fed(queue, Err(SendError))

feed_entry(tree, i, queue, receiverAlive) ==
    IF tree[i] = "err" THEN Fed(queue, Err(WalkError))
    ELSE IF tree[i] = "file"
    THEN LET file == new_under_root(RootPath, EntryPath(tree, i)) IN
         IF file.kind # "Ok" THEN Fed(queue, file)
         ELSE IF receiverAlive THEN Fed(Append(queue, file.val), Ok("unit"))
         ELSE Fed(queue, Err(SendError))
    ELSE Fed(queue, Ok("unit"))

\* single_dir_provider: the whole walk collected, the first walk error
\* returned; then FileToUpload::new on every entry.
RECURSIVE MapNew(_, _)
MapNew(tree, i) ==
    IF i > Len(tree) THEN <<>>
    ELSE <<new_file_to_upload(EntryPath(tree, i)).val>> \o MapNew(tree, i + 1)

single_dir_provider(tree) ==
    IF \E i \in 1..Len(tree) : tree[i] = "err" THEN Err(WalkError)
    ELSE Ok(MapNew(tree, 1))

(***************************************************************************)
(* Discovery as a state machine.  walk.tree is the directory tree on disk; *)
(* discover_recursive spawns the walker and returns the stream, dropping   *)
(* the walker's JoinHandle; the walker feeds one entry per step.           *)
(***************************************************************************)
WalkOf(tree) == [tree |-> tree, pos |-> 1, result |-> NotCalled, visited |-> <<>>]
NoChannel == [queue |-> <<>>, senderAlive |-> FALSE, receiverAlive |-> FALSE]
NoConsumer == [state |-> "none", received |-> <<>>]

\* let (tx, rx) = flume::unbounded(); spawn_blocking(discover_and_feed(root, tx));
\* rx.into_stream()
DiscoverRecursive ==
    /\ walk.result = NotCalled
    /\ walk' = [walk EXCEPT !.result = Running]
    /\ chan' = [queue |-> <<>>, senderAlive |-> TRUE, receiverAlive |-> TRUE]
    /\ consumer' = [state |-> "reading", received |-> <<>>]
    /\ UNCHANGED <<eager, archiveVars, transferVars>>

\* One iteration of try_for_each in discover_and_feed; the sender is dropped
\* when discover_and_feed returns.
WalkStep ==
    /\ walk.result = Running
    /\ LET fed == feed_entry(walk.tree, walk.pos, chan.queue, chan.receiverAlive)
           finished == fed.result.kind # "Ok" \/ walk.pos = Len(walk.tree)
       IN  /\ walk' = [walk EXCEPT
                         !.pos = IF fed.result.kind = "Ok" THEN @ + 1 ELSE @,
                         !.visited = Append(@, walk.pos),
                         !.result = IF finished THEN fed.result ELSE Running]
           /\ chan' = [chan EXCEPT !.queue = fed.queue,
                                   !.senderAlive = ~finished]
    /\ UNCHANGED <<consumer, eager, archiveVars, transferVars>>

\* The stream yields the next file.
StreamNext ==
    /\ consumer.state = "reading"
    /\ chan.queue # <<>>
    /\ consumer' = [consumer EXCEPT !.received = Append(@, Head(chan.queue))]
    /\ chan' = [chan EXCEPT !.queue = Tail(@)]
    /\ UNCHANGED <<walk, eager, archiveVars, transferVars>>

\* The stream ends: the queue is empty and every sender is dropped.
StreamEnd ==
    /\ consumer.state = "reading"
    /\ chan.queue = <<>>
    /\ ~chan.senderAlive
    /\ consumer' = [consumer EXCEPT !.state = "ended"]
    /\ UNCHANGED <<walk, chan, eager, archiveVars, transferVars>>

\* The consumer drops the stream, and with it the only receiver.
StreamDrop ==
    /\ consumer.state = "reading"
    /\ consumer' = [consumer EXCEPT !.state = "dropped"]
    /\ chan' = [chan EXCEPT !.receiverAlive = FALSE]
    /\ UNCHANGED <<walk, eager, archiveVars, transferVars>>

SingleDirProviderCall ==
    /\ eager = NotCalled
    /\ eager' = single_dir_provider(walk.tree)
    /\ UNCHANGED <<walk, chan, consumer, archiveVars, transferVars>>

(***************************************************************************)
(* actions/artifacts.rs: upload.                                           *)
(*                                                                         *)
(* up.files is the file sequence handed to upload, each file with what the *)
(* remote container will answer to its upload ("accept" or "reject");      *)
(* up.log is the sequence of calls made to the remote service.  The walk   *)
(* of upload_artifact_to_file_container over the sequence is up.idx.       *)
(***************************************************************************)
UploadAnswers == {"accept", "reject"}

FileSeqs == {<<>>} \cup SeqsUpTo(UploadAnswers, MaxItems)

\* ArtifactUploader::upload_artifact_to_file_container on the file at
\* position idx: the file is uploaded; a rejected upload fails the whole
\* operation, the last accepted one completes it.
container_upload_step(files, idx) ==
    IF files[idx] = "reject" THEN Err("upload failed")
    ELSE IF idx = Len(files) THEN Ok("unit")
    ELSE Running

\* upload, after `handler.upload_artifact_to_file_container(..).await?`:
\* the position upload goes on from, given the container upload's result.
after_container_upload_unchecked(result) ==
    [pc |-> "finalizing", ret |-> Running]

after_container_upload(result) ==
    IF result.kind = "Ok" THEN [pc |-> "finalizing", ret |-> Running]
    ELSE [pc |-> "done", ret |-> result]

\* A call made to the remote service: its operation and, for upload_file,
\* the position in the sequence of the file it uploads.
RemoteCall(op, idx) == [op |-> op, idx |-> idx]

TransferIdle ==
    [pc |-> "idle", files |-> <<>>, idx |-> 0, log |-> <<>>, ret |-> NotCalled]

\* upload: SessionClient::new_from_env()?, ArtifactUploader::new(..).await?,
\* then the container upload starts (and ends at once on an empty sequence).
UploadStart ==
    /\ up.pc = "idle"
    /\ \E files \in FileSeqs, envOk \in BOOLEAN, createOk \in BOOLEAN :
        IF ~envOk
        THEN up' = [up EXCEPT !.pc = "done", !.files = files,
                              !.ret = Err("environment")]
        ELSE IF ~createOk
        THEN up' = [up EXCEPT !.pc = "done", !.files = files,
                              !.log = <<RemoteCall("create_container", 0)>>,
                              !.ret = Err("create_container")]
        ELSE IF files = <<>>
        THEN LET next == after_container_upload(Ok("unit")) IN
             up' = [up EXCEPT !.pc = next.pc, !.files = files,
                              !.log = <<RemoteCall("create_container", 0)>>,
                              !.ret = next.ret]
        ELSE up' = [up EXCEPT !.pc = "uploading", !.files = files, !.idx = 1,
                              !.log = <<RemoteCall("create_container", 0)>>,
                              !.ret = Running]
    /\ UNCHANGED <<dl, archiveVars, discoveryVars>>

\* The container upload takes the next file of the sequence.
UploadFile ==
    /\ up.pc = "uploading"
    /\ LET result == container_upload_step(up.files, up.idx)
           next == after_container_upload(result)
       IN  IF result = Running
           THEN up' = [up EXCEPT !.idx = @ + 1,
                                 !.log = Append(@, RemoteCall("upload_file", up.idx))]
           ELSE up' = [up EXCEPT !.pc = next.pc, !.ret = next.ret,
                                 !.log = Append(@, RemoteCall("upload_file", up.idx))]
    /\ UNCHANGED <<dl, archiveVars, discoveryVars>>

\* handler.patch_artifact_size().await?; Ok(())
UploadFinalize ==
    /\ up.pc = "finalizing"
    /\ \E patchOk \in BOOLEAN :
        up' = [up EXCEPT !.pc = "done",
                         !.log = Append(@, RemoteCall("patch_artifact_size", 0)),
                         !.ret = IF patchOk THEN Ok("unit") ELSE Err("patch")]
    /\ UNCHANGED <<dl, archiveVars, discoveryVars>>

(***************************************************************************)
(* actions/artifacts.rs: download_single_file_artifact.                    *)
(***************************************************************************)
Locations == {"https://store/item1", "https://store/item2"}
Targets == {"out/a", "out/b"}

Manifests == {<<>>} \cup SeqsUpTo(Locations, MaxItems)

FileToDownload(target, remote_source_location) ==
    [target |-> target, remote_source_location |-> remote_source_location]

Downloaded(result, fetches) == [result |-> result, fetches |-> fetches]

\* sessionOk: SessionClient::new_from_env and ArtifactDownloader::new succeed;
\* items: downloader.file_items(), each item's content_location;
\* fetchOk: download_file_item succeeds.
download_first_item(sessionOk, items, target, fetchOk) ==
    IF ~sessionOk THEN Downloaded(Err("session"), <<>>)
    ELSE IF Len(items) >= 1
    THEN Downloaded(IF fetchOk THEN Ok("unit") ELSE Err("download_file_item"),
                    <<FileToDownload(target, items[1])>>)
    ELSE Downloaded(Err("The artifact does not contain only a single file."), <<>>)

download_single_file_artifact(sessionOk, items, target, fetchOk) ==
    IF ~sessionOk THEN Downloaded(Err("session"), <<>>)
    ELSE IF Len(items) = 1
    THEN Downloaded(IF fetchOk THEN Ok("unit") ELSE Err("download_file_item"),
                    <<FileToDownload(target, items[1])>>)
    ELSE Downloaded(Err("The artifact does not contain only a single file."), <<>>)

DownloadIdle ==
    [called |-> FALSE, sessionOk |-> FALSE, items |-> <<>>, target |-> "out/a",
     out |-> Downloaded(NotCalled, <<>>)]

DownloadCall ==
    /\ ~dl.called
    /\ \E sessionOk \in BOOLEAN, items \in Manifests, target \in Targets,
          fetchOk \in BOOLEAN :
        dl' = [called |-> TRUE, sessionOk |-> sessionOk, items |-> items,
               target |-> target,
               out |-> download_single_file_artifact(sessionOk, items, target, fetchOk)]
    /\ UNCHANGED <<up, archiveVars, discoveryVars>>

(***************************************************************************)
(* Specifications: one per layer, the other layers at rest.                *)
(***************************************************************************)
ArchiveInit ==
    /\ call \in ArchiveCalls
    /\ ret = Pending
    /\ walk = WalkOf(<<"dir">>)
    /\ chan = NoChannel
    /\ consumer = NoConsumer
    /\ eager = NotCalled
    /\ up = TransferIdle
    /\ dl = DownloadIdle

ArchiveNext ==
    \/ FromFilenameCall
    \/ ExtractItemCall
    \/ PackCmdCall
    \/ PackCall
    \/ CreateCall

ArchiveSpec == ArchiveInit /\ [][ArchiveNext]_vars

DiscoveryInit ==
    /\ call = NoCall
    /\ ret = Pending
    /\ walk \in {WalkOf(tree) : tree \in Trees}
    /\ chan = NoChannel
    /\ consumer = NoConsumer
    /\ eager = NotCalled
    /\ up = TransferIdle
    /\ dl = DownloadIdle

DiscoveryNext ==
    \/ DiscoverRecursive
    \/ WalkStep
    \/ StreamNext
    \/ StreamEnd
    \/ StreamDrop
    \/ SingleDirProviderCall

DiscoverySpec == DiscoveryInit /\ [][DiscoveryNext]_vars

\* Streaming discovery with a consumer that keeps reading (it never drops the
\* stream).  The walker is a task on the blocking thread pool and runs on
\* whatever the consumer does; the consumer polls the stream until it ends.
StreamingNext ==
    \/ DiscoverRecursive
    \/ WalkStep
    \/ StreamNext
    \/ StreamEnd

StreamingSpec ==
    /\ DiscoveryInit
    /\ [][StreamingNext]_vars
    /\ WF_vars(WalkStep)
    /\ WF_vars(StreamNext)
    /\ WF_vars(StreamEnd)

TransferInit ==
    /\ call = NoCall
    /\ ret = Pending
    /\ walk = WalkOf(<<"dir">>)
    /\ chan = NoChannel
    /\ consumer = NoConsumer
    /\ eager = NotCalled
    /\ up = TransferIdle
    /\ dl = DownloadIdle

TransferNext ==
    \/ UploadStart
    \/ UploadFile
    \/ UploadFinalize
    \/ DownloadCall

TransferSpec == TransferInit /\ [][TransferNext]_vars

(***************************************************************************)
(* Properties of Format::from_filename (ArchiveSpec).                      *)
(***************************************************************************)
FromFilenameDone == call.op = "from_filename" /\ ret # Pending

CompressionSuffixes == {"bz2", "gz", "lzma", "xz"}

\* The documented pairing, read off the last extension alone.
DocumentedFormat(last) ==
    CASE last = "zip" -> Zip
      [] last = "7z" -> SevenZip
      [] last = "tgz" -> Tar(Some("Gzip"))
      [] last = "txz" -> Tar(Some("Xz"))
      [] last = "bz2" -> Tar(Some("Bzip2"))
      [] last = "gz" -> Tar(Some("Gzip"))
      [] last = "lzma" -> Tar(Some("Lzma"))
      [] last = "xz" -> Tar(Some("Xz"))

\* name is <stem>.<ext> with a stem that is not empty.
HasStemAndExt(name) == Len(name) >= 2 /\ Front(name) # <<"">>

\* name ends in a supported extension: <stem>.zip, .7z, .tgz, .txz, or
\* <stem>.tar.<compression suffix>.
SupportedName(name) ==
    /\ HasStemAndExt(name)
    /\ \/ name[Len(name)] \in {"zip", "7z", "tgz", "txz"}
       \/ /\ name[Len(name)] \in CompressionSuffixes
          /\ HasStemAndExt(Front(name))
          /\ name[Len(name) - 1] = "tar"

\* C1: for every file name that ends in a supported extension, from_filename
\* returns the documented format, which is decided by the last two extension
\* components alone (the directory and the rest of the name do not matter).
C1_SupportedExtensions ==
    (FromFilenameDone /\ SupportedName(call.path.name))
        => ret.result = Ok(DocumentedFormat(call.path.name[Len(call.path.name)]))

\* C1 witness: /tmp/.tmpnejBKd/x.tar.gz has resolved to Tar(Gzip).
C1_Witness ==
    /\ FromFilenameDone
    /\ call.path = [dir |-> "/tmp/.tmpnejBKd", name |-> <<"x", "tar", "gz">>]
    /\ ret.result = Ok(Tar(Some("Gzip")))

\* C2: a file name whose final extension is a bare tar resolves to Tar with
\* no compression.
C2_BareTar ==
    (/\ FromFilenameDone
     /\ HasStemAndExt(call.path.name)
     /\ call.path.name[Len(call.path.name)] = "tar")
        => ret.result = Ok(Tar(None))

\* C3: from_filename fails in exactly three ways and in no other case: no
\* extension; a compression suffix whose second-to-last component is not
\* tar; a final extension that is neither a format nor a compression suffix.
\* Every call returns a Format or exactly the error of its case.
C3_ThreeFailures ==
    FromFilenameDone =>
        LET name == call.path.name
            ext == extension(name)
            last == name[Len(name)]
            expected ==
                IF ~ext.some THEN Err(NoExtension)
                ELSE IF last \in {"zip", "7z", "tgz", "txz"}
                THEN Ok(DocumentedFormat(last))
                ELSE IF last \in CompressionSuffixes
                THEN IF HasStemAndExt(Front(name)) /\ name[Len(name) - 1] = "tar"
                     THEN Ok(DocumentedFormat(last))
                     ELSE Err(MissingTar)
                ELSE Err(Unrecognized)
        IN  ret.result = expected

(***************************************************************************)
(* Properties of extract_item and Tar::pack_cmd (ArchiveSpec).             *)
(***************************************************************************)
ExtractItemDone == call.op = "extract_item" /\ ret # Pending

SubtreeFormats == {Zip, Tar(Some("Gzip"))}

\* The archive name of the call resolves to a format outside Zip, Tar(Gzip).
ResolvesToOtherFormat ==
    /\ from_filename(call.path).kind = "Ok"
    /\ from_filename(call.path).val \notin SubtreeFormats

\* C9 as claimed: for a resolved format other than Zip and Tar(Gzip),
\* extract_item returns an unsupported-operation error to its caller and
\* starts no extraction task.
C9_UnsupportedIsReturnedError ==
    (ExtractItemDone /\ ResolvesToOtherFormat)
        => ret.result.kind = "Err" /\ ret.spawned = <<>>

\* C9 as amended: extract_item starts an extraction task only when the
\* resolved format is Zip or Tar(Gzip); for every other resolved format the
\* call panics (todo!) instead of returning: no extraction task is started
\* and no value, Ok or Err, reaches the caller.
C9_UnsupportedPanics ==
    ExtractItemDone =>
        /\ ret.spawned # <<>> =>
              /\ from_filename(call.path).kind = "Ok"
              /\ from_filename(call.path).val \in SubtreeFormats
        /\ ResolvesToOtherFormat =>
              ret.result = Panic("todo") /\ ret.spawned = <<>>

\* C9 witness: extract_item on x.tar.xz has panicked with no task started.
C9_Witness ==
    /\ ExtractItemDone
    /\ call.path.name = <<"x", "tar", "xz">>
    /\ ret.result = Panic("todo")
    /\ ret.spawned = <<>>

PackCmdDone == call.op = "pack_cmd" /\ ret # Pending
PackDone == call.op = "pack" /\ ret # Pending

\* cmd archives exactly the base name of the one input path, from the parent
\* directory of its canonical path.
PacksBaseNameFromParent(cmd, paths) ==
    /\ Len(paths) = 1
    /\ canonicalize(paths[1]).kind = "Ok"
    /\ parent(canonicalize(paths[1]).val).some
    /\ path_file_name(paths[1]).some
    /\ Len(cmd) >= 3
    /\ SubSeq(cmd, Len(cmd) - 2, Len(cmd))
         = <<"--directory", AbsStr(parent(canonicalize(paths[1]).val).val),
             path_file_name(paths[1]).val>>
    /\ \A i \in 1..(Len(cmd) - 3) : cmd[i] # "--directory"

\* C10: pack_cmd yields a command only for exactly one input path, and that
\* command has the parent of the canonical input path as --directory and the
\* input's base name as its only entry; with any other number of input paths
\* the call fails and no tar command is produced or run.
C10_SinglePathPacking ==
    /\ (PackCmdDone /\ ret.result.kind = "Ok")
          => PacksBaseNameFromParent(ret.result.val, call.paths)
    /\ (PackDone /\ ret.ran # <<>>)
          => PacksBaseNameFromParent(ret.ran[1], call.paths)
    /\ ((PackCmdDone \/ PackDone) /\ Len(call.paths) # 1)
          => ret.result.kind # "Ok" /\ ret.ran = <<>>

(***************************************************************************)
(* Properties of upload and download_single_file_artifact (TransferSpec).  *)
(***************************************************************************)
Issued(op) == {i \in 1..Len(up.log) : up.log[i].op = op}

\* The files whose upload has been issued, and those among them rejected.
UploadedFiles == {up.log[i].idx : i \in Issued("upload_file")}
RejectedFiles == {k \in UploadedFiles : up.files[k] = "reject"}

C5_ManifestArity ==
    dl.called =>
        /\ dl.out.fetches # <<>> => Len(dl.items) = 1
        /\ (dl.sessionOk /\ Len(dl.items) = 1) =>
              dl.out.fetches = <<FileToDownload(dl.target, dl.items[1])>>
        /\ (dl.sessionOk /\ Len(dl.items) # 1) =>
              dl.out.fetches = <<>> /\ dl.out.result.kind = "Err"

\* C5 witness: a call on a two-item manifest has failed without a fetch.
C5_Witness ==
    /\ dl.called
    /\ dl.sessionOk
    /\ Len(dl.items) = 2
    /\ dl.out.result.kind = "Err"
    /\ dl.out.fetches = <<>>

(***************************************************************************)
(* Properties of discovery (DiscoverySpec).                                *)
(***************************************************************************)
Range(seq) == {seq[i] : i \in 1..Len(seq)}

\* Every file the streaming discovery has put into the channel.
Streamed == Range(consumer.received) \cup Range(chan.queue)

HasWalkError(tree) == \E i \in 1..Len(tree) : tree[i] = "err"

\* C6: over the same tree, a completed streaming discovery and the eager
\* discovery yield the same set of (local_path, remote_path) pairs.
C6_SameFileSet ==
    (/\ eager.kind = "Ok"
     /\ walk.result = Ok("unit")
     /\ consumer.state # "dropped")
        => Range(eager.val) = Streamed

\* C7: once the consumer has dropped the stream, the walker's next send
\* fails and the walk stops at that entry: nothing more enters the channel,
\* and after the failed send no entry is visited.
C7_DroppedConsumerStopsWalk ==
    [][/\ consumer.state = "dropped" => chan'.queue = chan.queue
       /\ (/\ consumer.state = "dropped"
           /\ walk.result = Running
           /\ walk.tree[walk.pos] = "file"
           /\ walk' # walk)
             => /\ walk'.result = Err(SendError)
                /\ walk'.pos = walk.pos
                /\ ~chan'.senderAlive
       /\ walk.result = Err(SendError) => walk' = walk /\ chan' = chan
      ]_vars

\* C7 witness: a send has failed on a dropped consumer with entries of the
\* tree still unvisited.
C7_Witness ==
    /\ consumer.state = "dropped"
    /\ walk.result = Err(SendError)
    /\ walk.pos < Len(walk.tree)
    /\ Len(walk.visited) = walk.pos

\* The files a consumer receives from a walk of the tree that completes.
RECURSIVE Delivered(_, _, _)
Delivered(tree, i, queue) ==
    IF i > Len(tree) THEN queue
    ELSE Delivered(tree, i + 1, feed_entry(tree, i, queue, TRUE).queue)

\* C8: a walk error aborts the discovery and reaches the caller, in the
\* eager variant (the call returns it) as in the streaming one: what the
\* consumer of a stream that ended on a walk error has observed is not what
\* a walk that completed delivers.
C8_WalkErrorReachesCaller ==
    /\ (eager # NotCalled /\ HasWalkError(walk.tree)) => eager = Err(WalkError)
    /\ (walk.result = Err(WalkError) /\ consumer.state = "ended")
          => ~\E tree \in Trees :
                 /\ ~HasWalkError(tree)
                 /\ Delivered(tree, 1, <<>>) = consumer.received

\* The paths of the regular files of the tree from entry i on, in walk order.
RECURSIVE FilePaths(_, _)
FilePaths(tree, i) ==
    IF i > Len(tree) THEN <<>>
    ELSE (IF tree[i] = "file" THEN <<EntryPath(tree, i)>> ELSE <<>>)
         \o FilePaths(tree, i + 1)

LocalPaths(files) == [k \in 1..Len(files) |-> files[k].local_path]

IsPrefix(s, t) == Len(s) <= Len(t) /\ SubSeq(t, 1, Len(s)) = s

\* C11: with a consumer that keeps reading and a walk that meets no error,
\* the stream delivers one FileToUpload for each regular file under the root,
\* none for another entry and none twice, and then ends: once the walk has
\* started, the consumer eventually observes the end of the stream, having
\* received every regular file of the tree.
C11_EachFileOnceThenEnd ==
    /\ [](~HasWalkError(walk.tree) =>
            /\ IsPrefix(LocalPaths(consumer.received \o chan.queue),
                        FilePaths(walk.tree, 1))
            /\ consumer.state = "ended" =>
                  LocalPaths(consumer.received) = FilePaths(walk.tree, 1))
    /\ (walk.result = Running /\ ~HasWalkError(walk.tree))
          ~> (consumer.state = "ended" /\ ~chan.senderAlive /\ chan.queue = <<>>)

\* C11 witness: the stream over a tree with two regular files, one of them in
\* a subdirectory, has ended with both files received.
C11_Witness ==
    /\ walk.tree = <<"dir", "file", "dir", "file">>
    /\ consumer.state = "ended"
    /\ LocalPaths(consumer.received) = <<<<0, 1>>, <<0, 2, 3>>>>

(***************************************************************************)
(* Properties of archive::create (ArchiveSpec).                            *)
(***************************************************************************)
CreateDone == call.op = "create" /\ ret # Pending

CompressionFlags == {CompressionFlag(c) : c \in Compression}

\* cmd carries exactly the compression flag of c, between -c and -f.
CarriesFlagOf(cmd, c) ==
    /\ Len(cmd) >= 3
    /\ cmd[1] = "-c"
    /\ cmd[2] = (CASE c = "Bzip2" -> "-j" [] c = "Gzip" -> "-z"
                   [] c = "Lzma" -> "--lzma" [] c = "Xz" -> "-J")
    /\ cmd[3] = "-f"
    /\ \A i \in 3..Len(cmd) : cmd[i] \notin CompressionFlags

\* C12: a call of archive::create invokes at most one backend, the one of
\* the format resolved from the output archive name: the 7z packer for Zip
\* and SevenZip, the tar packer for every Tar format, none when the
\* resolution fails, and the call then returns the resolution error; the tar
\* command carries a compression flag exactly when the format is
\* Tar(Some(c)), the flag of c, after the create command and before -f.
C12_CreateDispatch ==
    CreateDone =>
        LET format == from_filename(call.path) IN
        /\ Len(ret.backends) <= 1
        /\ format.kind # "Ok" =>
              /\ ret.backends = <<>>
              /\ ret.ran = <<>>
              /\ ret.result.kind = "Err"
              /\ ret.result = format
        /\ format.kind = "Ok" =>
              /\ format.val \in {Zip, SevenZip} =>
                    ret.backends = <<"SevenZip.pack">> /\ ret.ran = <<>>
              /\ format.val \notin {Zip, SevenZip} =>
                    /\ ret.backends = <<"Tar.pack">>
                    /\ \A k \in 1..Len(ret.ran) :
                          IF format.val.compression.some
                          THEN CarriesFlagOf(ret.ran[k], format.val.compression.val)
                          ELSE \A i \in 1..Len(ret.ran[k]) :
                                   ret.ran[k][i] \notin CompressionFlags

====
